---- MODULE Spec2Model ----
(***************************************************************************)
(* State-machine model of navigation/local_planner_behavior.py:            *)
(* class LocalPlanner (waypoint queue and buffer, RRT local target queue,  *)
(* PID gain selection) with one action per public method.                  *)
(*                                                                         *)
(* Conventions.  A Python deque is a sequence whose index 1 is the left    *)
(* end.  A method that raises leaves the fields as they were at the raise  *)
(* and reports the exception in the variable ret.  Python 3 semantics are  *)
(* used throughout (None > 50 raises TypeError).  External collaborators   *)
(* (the map, distance_vehicle, RRT.planning, VehiclePIDController) are     *)
(* inputs of the action that calls them.                                   *)
(***************************************************************************)
EXTENDS Integers, Sequences, FiniteSets, TLC

(***************************************************************************)
(* Bounds of the model                                                     *)
(***************************************************************************)
\* number of plan entries the route provider hands over in the whole run
MaxId == 10
\* longest list of entries given to one set_global_plan call
MaxPlan == 5
\* longest path RRT.planning returns
MaxPath == 4
\* largest argument of get_incoming_waypoint_and_direction
MaxSteps == 3

(***************************************************************************)
(* Program constants                                                       *)
(***************************************************************************)
queue_maxlen == 20000
buffer_size == 5
rrt_maxlen == 10000
PathDrop == 2
SpeedThreshold == 50
OriginA == 75
OriginB == 168
RarityThreshold == 500
vehicle_color == 164
RoadGray == 0
LaneGray == 150
OtherGray == 90
GridFree == 0
GridEgo == 5
GridOccupied == 10

\* Python's None, and the carla actor the agent hands to the planner
None == [py |-> "None"]

Vehicle == [py |-> "carla.Vehicle"]

\* an optional number is a sequence of at most one number: <<>> is Python's None
NoSpeed == <<>>

\* the values of target_speed a caller passes (km/h), NoSpeed when omitted
TargetSpeeds == {NoSpeed, <<SpeedThreshold>>, <<SpeedThreshold + 1>>}

\* the grid cells (column a, row b) a path of the searcher is made of
Cells == {<<OriginA, OriginB>>, <<OriginA, OriginB - 8>>}

Paths == UNION {[1..n -> Cells] : n \in 0..MaxPath}

\* two cells away from the origin, which pixel_to_world maps, and the paths
\* over them that keep up to three cells when the last two are dropped
PathCells == {<<OriginA, OriginB - 8>>, <<OriginA + 4, OriginB - 3>>}

LongPaths == UNION {[1..n -> PathCells] : n \in 0..(MaxPath + 1)}

\* A camera frame after the conversion to gray of line 198, as the areas of
\* one gray value it is made of: the pixels the start marker of line 314
\* covers, the pixels the goal marker of line 315 covers, and the rest.
\* Each area has its gray value and its number of pixels.
Regions == {"start", "goal", "rest"}

GrayValues == {RoadGray, LaneGray, vehicle_color, OtherGray}

PixelCounts == {1, RarityThreshold - 1, RarityThreshold}

Frames == [Regions -> [value : GrayValues, count : PixelCounts]]

\* the frame of a vehicle on a road: its own footprint under the start
\* marker, road under the goal marker, something else around
RoadFrame ==
    [start |-> [value |-> vehicle_color, count |-> RarityThreshold - 1],
     goal  |-> [value |-> RoadGray, count |-> RarityThreshold],
     rest  |-> [value |-> OtherGray, count |-> RarityThreshold]]

(***************************************************************************)
(* Data                                                                    *)
(***************************************************************************)
\* class RoadOption
RoadOption == [VOID |-> -1, LEFT |-> 1, RIGHT |-> 2, STRAIGHT |-> 3,
               LANEFOLLOW |-> 4, CHANGELANELEFT |-> 5, CHANGELANERIGHT |-> 6]

\* a waypoint of the global route: the i-th one the route provider issued
PlanWaypoint(i) == [src |-> "plan", id |-> i, cell |-> <<0, 0>>]

\* the waypoint the map returns for the world location a grid cell maps to
MapWaypoint(loc) == [src |-> "rrt", id |-> 0, cell |-> loc.cell]

\* a PlanEntry (waypoint, RoadOption) of the global plan
PlanEntry(i) == <<PlanWaypoint(i), IF i % 2 = 0 THEN RoadOption.LEFT ELSE RoadOption.LANEFOLLOW>>

\* the entries of one set_global_plan call: the next n of the route
PlanEntries(first, n) == [k \in 1..n |-> PlanEntry(first + k - 1)]

\* the attribute self.local_target before its first assignment
Unset == [src |-> "unset", id |-> 0, cell |-> <<0, 0>>]

\* Python's None where a waypoint is expected
NoWaypoint == [src |-> "none", id |-> 0, cell |-> <<0, 0>>]

NoEntry == <<NoWaypoint, RoadOption.VOID>>

Raise(e) == [kind |-> "raise", exc |-> e]

Returned(v) == [kind |-> "return", value |-> v]

Min(a, b) == IF a < b THEN a ELSE b

(***************************************************************************)
(* _init_controller: the four gain dictionaries, in thousandths            *)
(***************************************************************************)
args_lat_hw_dict == [K_P |-> 750, K_D |-> 20, K_I |-> 400, dt |-> 50]

args_lat_city_dict == [K_P |-> 580, K_D |-> 20, K_I |-> 500, dt |-> 50]

args_long_hw_dict == [K_P |-> 370, K_D |-> 24, K_I |-> 32, dt |-> 50]

args_long_city_dict == [K_P |-> 150, K_D |-> 50, K_I |-> 70, dt |-> 50]

(***************************************************************************)
(* State                                                                   *)
(***************************************************************************)
VARIABLES
    vehicle,           \* self._vehicle: Vehicle or None
    global_plan,       \* self._global_plan
    waypoints_queue,   \* self.waypoints_queue
    waypoint_buffer,   \* self._waypoint_buffer
    rrt_buffer,        \* self.rrt_buffer
    local_target,      \* self.local_target, Unset until first assigned
    nextId,            \* the next route waypoint the provider will issue
    rgb,               \* the frame the camera hands to the next tick
    op,                \* the method called last
    args,              \* its arguments
    ret,               \* what it returned or raised
    trace              \* what its steps saw and did

vars == <<vehicle, global_plan, waypoints_queue, waypoint_buffer, rrt_buffer,
          local_target, nextId, rgb, op, args, ret, trace>>

(***************************************************************************)
(* collections.deque                                                       *)
(***************************************************************************)
\* deque.append on a deque of the given maxlen: a full deque drops its left end
DequeAppend(d, e, maxlen) == IF Len(d) >= maxlen THEN Append(Tail(d), e) ELSE Append(d, e)

\* deque.appendleft on a deque of the given maxlen: a full deque drops its right end
DequeAppendLeft(d, e, maxlen) == IF Len(d) >= maxlen THEN <<e>> \o SubSeq(d, 1, Len(d) - 1) ELSE <<e>> \o d

\* d[i] with Python's indices: 0 is the left end, -1 the right end
DequeIndex(d, i) ==
    IF 0 <= i /\ i < Len(d) THEN Returned(d[i + 1])
    ELSE IF i < 0 /\ -i <= Len(d) THEN Returned(d[Len(d) + i + 1])
    ELSE Raise("IndexError")

(***************************************************************************)
(* set_global_plan                                                         *)
(***************************************************************************)
\* lines 164-165: for elem in current_plan: self.waypoints_queue.append(elem)
RECURSIVE QueueExtend(_, _)
QueueExtend(q, entries) ==
    IF entries = <<>> THEN q
    ELSE QueueExtend(DequeAppend(q, Head(entries), queue_maxlen), Tail(entries))

\* lines 169-174: up to n pops from the Queue front into the Buffer
RECURSIVE CleanFill(_, _, _)
CleanFill(q, b, n) ==
    IF n = 0 \/ q = <<>> THEN [queue |-> q, buffer |-> b]
    ELSE CleanFill(Tail(q), DequeAppend(b, Head(q), buffer_size), n - 1)

\* a set_global_plan that does not clear the Buffer before it fills it
SetGlobalPlanKeepsBuffer(q, b, current_plan, clean) ==
    LET q1 == QueueExtend(q, current_plan)
    IN  IF clean THEN CleanFill(q1, b, buffer_size)
        ELSE [queue |-> q1, buffer |-> b]

\* a set_global_plan that, with clean, drops what the Queue held before
SetGlobalPlanClearsQueue(q, b, current_plan, clean) ==
    IF clean THEN CleanFill(QueueExtend(<<>>, current_plan), <<>>, buffer_size)
    ELSE [queue |-> QueueExtend(q, current_plan), buffer |-> b]

\* lines 158-176: the Queue and the Buffer after set_global_plan(current_plan, clean)
SetGlobalPlanResult(q, b, current_plan, clean) ==
    LET q1 == QueueExtend(q, current_plan)
    IN  IF clean THEN CleanFill(q1, <<>>, buffer_size)
        ELSE [queue |-> q1, buffer |-> b]

(***************************************************************************)
(* get_incoming_waypoint_and_direction                                     *)
(***************************************************************************)
\* a lookahead that indexes the Queue when it has steps entries or more
PeekIncomingInclusive(q, steps) ==
    IF Len(q) >= steps THEN DequeIndex(q, steps)
    ELSE LET last == DequeIndex(q, -1)
         IN  IF last.kind = "raise" THEN Returned(<<NoWaypoint, RoadOption.VOID>>)
             ELSE Returned(<<last.value[1], last.value[2]>>)

\* lines 184-194
PeekIncoming(q, steps) ==
    IF Len(q) > steps THEN DequeIndex(q, steps)
    ELSE LET last == DequeIndex(q, -1)
         IN  IF last.kind = "raise" THEN Returned(<<NoWaypoint, RoadOption.VOID>>)
             ELSE Returned(<<last.value[1], last.value[2]>>)

(***************************************************************************)
(* occupancy_grid                                                          *)
(***************************************************************************)
\* line 201: how many pixels of the frame have the gray value v
RECURSIVE CountPixels(_, _, _)
CountPixels(img, v, rs) ==
    IF rs = {} THEN 0
    ELSE LET r == CHOOSE x \in rs : TRUE
         IN  (IF img[r].value = v THEN img[r].count ELSE 0) + CountPixels(img, v, rs \ {r})

\* line 202: the gray values with fewer pixels than the threshold
RarePixels(img) ==
    {v \in {img[r].value : r \in DOMAIN img} : CountPixels(img, v, DOMAIN img) < RarityThreshold}

\* grid[img == v] = x for every v of vs
Paint(grid, img, vs, x) ==
    [r \in DOMAIN grid |-> IF img[r].value \in vs THEN x ELSE grid[r]]

\* lines 196-220: the grid of a frame, in tenths (0, 5 for 0.5, 10 for 1)
occupancy_grid(img) ==
    LET ones == [r \in DOMAIN img |-> GridOccupied]
        road == Paint(ones, img, {RoadGray}, GridFree)
        lane == Paint(road, img, {LaneGray}, GridFree)
        rare == Paint(lane, img, RarePixels(img), GridFree)
    IN  Paint(rare, img, {vehicle_color}, GridEgo)

\* lines 314-315: cv2.circle draws on the array it is given; the first
\* component of both marker colours, (0,255,0) and (0,0,255), is 0
DrawMarker(grid, region) == [grid EXCEPT ![region] = 0]

(***************************************************************************)
(* pixel_to_world                                                          *)
(***************************************************************************)
\* lines 223-238: the world location of grid cell (a, b), relative to the
\* pose of the tick; dx/d divides by zero at the origin cell
pixel_to_world(a, b) ==
    LET d2 == (a - OriginA) * (a - OriginA) + (b - OriginB) * (b - OriginB)
    IN  IF d2 = 0 THEN Raise("ZeroDivisionError")
        ELSE Returned([cell |-> <<a, b>>])

(***************************************************************************)
(* run_step, stage by stage.  A stage takes the record s of the fields as  *)
(* the tick has left them so far; s.ret.kind is "running" until the tick   *)
(* returns or raises, and the stages after that leave s alone.             *)
(***************************************************************************)
Running == [kind |-> "running"]

NoTrace ==
    [refill |-> [done |-> FALSE, from |-> <<>>, buffer |-> <<>>, queue |-> <<>>],
     target |-> NoEntry,
     grid   |-> [done |-> FALSE, built |-> <<>>, drawn |-> <<>>],
     search |-> [done |-> FALSE, len |-> 0, kept |-> <<>>, buffer |-> <<>>, grid |-> <<>>],
     gains  |-> [done |-> FALSE, lat |-> <<>>, long |-> <<>>],
     track  |-> [done |-> FALSE],
     purge  |-> [done |-> FALSE, buffer |-> <<>>, queue |-> <<>>, near |-> {}]]

\* a stop command that forgets the brake
StopCommandNoBrake ==
    [steer |-> 0, throttle |-> 0, brake |-> 0, hand_brake |-> FALSE, manual_gear_shift |-> FALSE]

\* lines 258-263
StopCommand ==
    [steer |-> 0, throttle |-> 0, brake |-> 1, hand_brake |-> FALSE, manual_gear_shift |-> FALSE]

\* lines 252-255: without a target speed the speed limit is read off the vehicle
SpeedStage(s, target_speed) ==
    IF target_speed = NoSpeed /\ s.vehicle = None THEN [s EXCEPT !.ret = Raise("AttributeError")]
    ELSE s

\* line 257: the test that sends the tick to the stop command
NoPlan(q, b) == Len(q) = 0

\* lines 257-264
StopStage(s) ==
    IF s.ret # Running THEN s
    ELSE IF NoPlan(s.queue, s.buffer) THEN [s EXCEPT !.ret = Returned(StopCommand)]
    ELSE s

\* line 271: for i in range(4), the pops that discard
SkipStride == 4

\* a refill that pops into the Buffer first and discards four entries after
RECURSIVE RefillLoopTakeFirst(_, _, _)
RefillLoopTakeFirst(q, b, n) ==
    IF n = 0 \/ q = <<>> THEN [queue |-> q, buffer |-> b, raised |-> FALSE]
    ELSE IF Len(q) <= SkipStride
         THEN [queue |-> <<>>, buffer |-> DequeAppend(b, q[1], buffer_size), raised |-> TRUE]
    ELSE RefillLoopTakeFirst(SubSeq(q, SkipStride + 2, Len(q)),
                             DequeAppend(b, q[1], buffer_size), n - 1)

\* a refill that pushes each entry on the left of the Buffer
RECURSIVE RefillLoopAppendLeft(_, _, _)
RefillLoopAppendLeft(q, b, n) ==
    IF n = 0 \/ q = <<>> THEN [queue |-> q, buffer |-> b, raised |-> FALSE]
    ELSE IF Len(q) <= SkipStride THEN [queue |-> <<>>, buffer |-> b, raised |-> TRUE]
    ELSE RefillLoopAppendLeft(SubSeq(q, SkipStride + 2, Len(q)),
                              DequeAppendLeft(b, q[SkipStride + 1], buffer_size), n - 1)

\* lines 268-278: at most n rounds of four discarding pops and one pop into
\* the Buffer; a pop from the emptied Queue raises IndexError
RECURSIVE RefillLoop(_, _, _)
RefillLoop(q, b, n) ==
    IF n = 0 \/ q = <<>> THEN [queue |-> q, buffer |-> b, raised |-> FALSE]
    ELSE IF Len(q) <= SkipStride THEN [queue |-> <<>>, buffer |-> b, raised |-> TRUE]
    ELSE RefillLoop(SubSeq(q, SkipStride + 2, Len(q)),
                    DequeAppend(b, q[SkipStride + 1], buffer_size), n - 1)

\* lines 266-278
RefillStage(s) ==
    IF s.ret # Running \/ s.buffer # <<>> THEN s
    ELSE LET r == RefillLoop(s.queue, s.buffer, buffer_size)
         IN  [s EXCEPT !.queue = r.queue, !.buffer = r.buffer,
                       !.trace.refill = [done |-> TRUE, from |-> s.queue,
                                         buffer |-> r.buffer, queue |-> r.queue],
                       !.ret = IF r.raised THEN Raise("IndexError") ELSE Running]

\* lines 281-309: the pose of the vehicle and the global target, the Buffer
\* front
TargetStage(s) ==
    IF s.ret # Running THEN s
    ELSE IF s.vehicle = None THEN [s EXCEPT !.ret = Raise("AttributeError")]
    ELSE LET front == DequeIndex(s.buffer, 0)
         IN  IF front.kind = "raise" THEN [s EXCEPT !.ret = front]
             ELSE [s EXCEPT !.trace.target = front.value]

\* lines 311-321: self.oc_grid is built from the frame and the two markers
\* are drawn on it
GridStage(s, img) ==
    IF s.ret # Running THEN s
    ELSE LET built == occupancy_grid(img)
             drawn == DrawMarker(DrawMarker(built, "start"), "goal")
         IN  [s EXCEPT !.oc_grid = drawn,
                       !.trace.grid = [done |-> TRUE, built |-> built, drawn |-> drawn]]

\* a mapping loop that pushes each local target on the right
RECURSIVE MapLoopAppend(_, _)
MapLoopAppend(path, r) ==
    IF path = <<>> THEN [rrt |-> r, raised |-> FALSE]
    ELSE LET m == pixel_to_world(Head(path)[1], Head(path)[2])
         IN  IF m.kind = "raise" THEN [rrt |-> r, raised |-> TRUE]
             ELSE MapLoopAppend(Tail(path), DequeAppend(r, MapWaypoint(m.value), rrt_maxlen))

\* lines 346-350: each cell of the path is mapped and pushed on the left
RECURSIVE MapLoop(_, _)
MapLoop(path, r) ==
    IF path = <<>> THEN [rrt |-> r, raised |-> FALSE]
    ELSE LET m == pixel_to_world(Head(path)[1], Head(path)[2])
         IN  IF m.kind = "raise" THEN [rrt |-> r, raised |-> TRUE]
             ELSE MapLoop(Tail(path), DequeAppendLeft(r, MapWaypoint(m.value), rrt_maxlen))

\* line 341: self.path[:-2]
DropTail(path) == SubSeq(path, 1, Len(path) - PathDrop)

\* lines 325-350: with the Local Target Queue empty, the Buffer front is
\* popped and the path the searcher returned is turned into local targets
ReplanStage(s, path) ==
    IF s.ret # Running \/ s.rrt # <<>> \/ s.buffer = <<>> THEN s
    ELSE LET kept == DropTail(path)
             m == MapLoop(kept, s.rrt)
         IN  [s EXCEPT !.trace.target = Head(s.buffer),
                       !.buffer = Tail(s.buffer),
                       !.trace.search = [done |-> TRUE, len |-> Len(path), kept |-> kept,
                                         buffer |-> Tail(s.buffer), grid |-> s.oc_grid],
                       !.rrt = m.rrt,
                       !.ret = IF m.raised THEN Raise("ZeroDivisionError") ELSE Running]

\* lines 352-354
LocalTargetStage(s) ==
    IF s.ret # Running \/ s.rrt = <<>> THEN s
    ELSE [s EXCEPT !.local_target = Head(s.rrt), !.rrt = Tail(s.rrt)]

\* a gain selection that takes the highway profiles at the threshold too
SelectGainsInclusive(speed) ==
    IF speed >= SpeedThreshold THEN [lat |-> args_lat_hw_dict, long |-> args_long_hw_dict]
    ELSE [lat |-> args_lat_city_dict, long |-> args_long_city_dict]

\* lines 365-370: the comparison on the argument target_speed
SelectGains(speed) ==
    IF speed > SpeedThreshold THEN [lat |-> args_lat_hw_dict, long |-> args_long_hw_dict]
    ELSE [lat |-> args_lat_city_dict, long |-> args_long_city_dict]

\* lines 365-374: None > 50 raises TypeError
GainStage(s, target_speed) ==
    IF s.ret # Running THEN s
    ELSE IF target_speed = NoSpeed THEN [s EXCEPT !.ret = Raise("TypeError")]
    ELSE LET g == SelectGains(target_speed[1])
         IN  [s EXCEPT !.trace.gains = [done |-> TRUE, lat |-> g.lat, long |-> g.long]]

\* line 376: the command of the controller built at lines 372-374, which is
\* a function of its gains, the speed and the waypoint it is given
TrackStage(s, target_speed) ==
    IF s.ret # Running THEN s
    ELSE IF s.local_target = Unset THEN [s EXCEPT !.ret = Raise("AttributeError")]
    ELSE [s EXCEPT !.trace.track = [done |-> TRUE],
                   !.control = [args_lateral |-> s.trace.gains.lat,
                                args_longitudinal |-> s.trace.gains.long,
                                target_speed |-> target_speed[1],
                                waypoint |-> s.local_target]]

\* a scan that stops at the first Buffer entry within the minimum distance
MaxIndexFirstHit(b, near) ==
    LET hits == {i \in 1..Len(b) : i \in near}
    IN  IF hits = {} THEN -1 ELSE (CHOOSE i \in hits : \A j \in hits : i <= j) - 1

\* lines 381-386: the highest Buffer index (from 0) within the minimum
\* distance, -1 when there is none; near holds the positions (from 1) of
\* the Buffer whose waypoint distance_vehicle puts within the distance
MaxIndex(b, near) ==
    LET hits == {i \in 1..Len(b) : i \in near}
    IN  IF hits = {} THEN -1 ELSE (CHOOSE i \in hits : \A j \in hits : j <= i) - 1

\* lines 387-389
PopObsolete(b, max_index) ==
    IF max_index >= 0 THEN SubSeq(b, max_index + 2, Len(b)) ELSE b

\* lines 378-394
PurgeStage(s, near) ==
    IF s.ret # Running THEN s
    ELSE [s EXCEPT !.buffer = PopObsolete(s.buffer, MaxIndex(s.buffer, near)),
                   !.trace.purge = [done |-> TRUE, buffer |-> s.buffer,
                                    queue |-> s.queue, near |-> near],
                   !.ret = Returned(s.control)]

\* the fields as a tick finds them
TickStart ==
    [vehicle |-> vehicle, queue |-> waypoints_queue, buffer |-> waypoint_buffer,
     rrt |-> rrt_buffer, local_target |-> local_target, oc_grid |-> <<>>,
     control |-> StopCommand, trace |-> NoTrace, ret |-> Running]

(***************************************************************************)
(* The planner after __init__ (lines 59-94) and its methods                *)
(***************************************************************************)
Init ==
    /\ vehicle = Vehicle
    /\ global_plan = FALSE
    /\ waypoints_queue = <<>>
    /\ waypoint_buffer = <<>>
    /\ rrt_buffer = <<>>
    /\ local_target = Unset
    /\ nextId = 1
    /\ rgb = RoadFrame
    /\ op = "__init__"
    /\ args = [agent |-> Vehicle]
    /\ ret = Returned(None)
    /\ trace = NoTrace

\* lines 96-99
ResetVehicle ==
    /\ vehicle' = None
    /\ UNCHANGED <<global_plan, waypoints_queue, waypoint_buffer, rrt_buffer, local_target,
                   nextId, rgb>>
    /\ op' = "reset_vehicle"
    /\ args' = [agent |-> None]
    /\ ret' = Returned(None)
    /\ trace' = NoTrace

\* lines 158-176, called with the next n entries of the route
SetGlobalPlan ==
    \E n \in 0..MaxPlan, clean \in BOOLEAN :
        LET current_plan == PlanEntries(nextId, n)
            r == SetGlobalPlanResult(waypoints_queue, waypoint_buffer, current_plan, clean)
        IN  /\ nextId + n - 1 <= MaxId
            /\ waypoints_queue' = r.queue
            /\ waypoint_buffer' = r.buffer
            /\ global_plan' = TRUE
            /\ nextId' = nextId + n
            /\ UNCHANGED <<vehicle, rrt_buffer, local_target, rgb>>
            /\ op' = "set_global_plan"
            /\ args' = [current_plan |-> current_plan, clean |-> clean]
            /\ ret' = Returned(None)
            /\ trace' = NoTrace

\* lines 178-194
GetIncoming ==
    \E steps \in -MaxSteps..MaxSteps :
        /\ UNCHANGED <<vehicle, global_plan, waypoints_queue, waypoint_buffer, rrt_buffer,
                       local_target, nextId, rgb>>
        /\ op' = "get_incoming_waypoint_and_direction"
        /\ args' = [steps |-> steps]
        /\ ret' = PeekIncoming(waypoints_queue, steps)
        /\ trace' = NoTrace

\* the paths the searcher may return: it is asked only in a tick that
\* reaches the replanning with an empty Local Target Queue
SearchInputs(s, paths) ==
    IF s.ret = Running /\ s.rrt = <<>> /\ s.buffer # <<>> THEN paths ELSE {<<>>}

\* the sets of Buffer positions distance_vehicle may put within the
\* minimum distance: it is asked only in a tick that reaches the purge
PurgeInputs(s) ==
    IF s.ret = Running THEN SUBSET (1..Len(s.buffer)) ELSE {{}}

\* lines 241-394: the whole tick, given the target speed of the caller, the
\* frame of the camera, the path the searcher returns if it is asked and the
\* Buffer positions that are within the minimum distance of the vehicle when
\* the purge looks; speeds and paths are the target speeds and the paths the
\* tick is explored with
Tick(speeds, paths) ==
    \E target_speed \in speeds :
    \E s1 \in {SpeedStage(TickStart, target_speed)} :
    \E s2 \in {StopStage(s1)} :
    \E s3 \in {RefillStage(s2)} :
    \E s4 \in {GridStage(TargetStage(s3), rgb)} :
    \E path \in SearchInputs(s4, paths) :
    \E s5 \in {ReplanStage(s4, path)} :
    \E s6 \in {LocalTargetStage(s5)} :
    \E s7 \in {GainStage(s6, target_speed)} :
    \E s8 \in {TrackStage(s7, target_speed)} :
    \E near \in PurgeInputs(s8) :
    \E s \in {PurgeStage(s8, near)} :
        /\ waypoints_queue' = s.queue
        /\ waypoint_buffer' = s.buffer
        /\ rrt_buffer' = s.rrt
        /\ local_target' = s.local_target
        /\ UNCHANGED <<vehicle, global_plan, nextId, rgb>>
        /\ op' = "run_step"
        /\ args' = [target_speed |-> target_speed]
        /\ ret' = s.ret
        /\ trace' = s.trace

RunStep == Tick(TargetSpeeds, Paths)

Next ==
    \/ SetGlobalPlan
    \/ RunStep
    \/ GetIncoming
    \/ ResetVehicle

Spec == Init /\ [][Next]_vars

(***************************************************************************)
(* The planner driven at one target speed, with longer paths of cells that *)
(* can be mapped                                                           *)
(***************************************************************************)
RunStepLongPath == Tick({<<SpeedThreshold>>}, LongPaths)

NextPath ==
    \/ SetGlobalPlan
    \/ RunStepLongPath

SpecPath == Init /\ [][NextPath]_vars

(***************************************************************************)
(* The grid builder on its own: occupancy_grid called on every frame       *)
(***************************************************************************)
InitGrid ==
    /\ vehicle = Vehicle
    /\ global_plan = FALSE
    /\ waypoints_queue = <<>>
    /\ waypoint_buffer = <<>>
    /\ rrt_buffer = <<>>
    /\ local_target = Unset
    /\ nextId = 1
    /\ rgb \in Frames
    /\ op = "__init__"
    /\ args = [agent |-> Vehicle]
    /\ ret = Returned(None)
    /\ trace = NoTrace

\* lines 196-220, called on the frame of the camera
OccupancyGrid ==
    /\ UNCHANGED <<vehicle, global_plan, waypoints_queue, waypoint_buffer, rrt_buffer,
                   local_target, nextId, rgb>>
    /\ op' = "occupancy_grid"
    /\ args' = [img |-> rgb]
    /\ ret' = Returned(occupancy_grid(rgb))
    /\ trace' = NoTrace

NextGrid == OccupancyGrid

SpecGrid == InitGrid /\ [][NextGrid]_vars

(***************************************************************************)
(* Properties                                                              *)
(***************************************************************************)
IsTick == op = "run_step"

\* the ids of the route waypoints of a sequence of plan entries
Ids(entries) == [k \in 1..Len(entries) |-> entries[k][1].id]

\* the command of the empty-plan scenario, field by field
FullStop(c) ==
    /\ DOMAIN c = {"steer", "throttle", "brake", "hand_brake", "manual_gear_shift"}
    /\ c.steer = 0 /\ c.throttle = 0 /\ c.brake = 1
    /\ c.hand_brake = FALSE /\ c.manual_gear_shift = FALSE

ReturnsFullStop(r) == r.kind = "return" /\ FullStop(r.value)

\* what C1 promises of a tick that starts with Queue and Buffer empty
EmptyPlanTick ==
    /\ ReturnsFullStop(ret')
    /\ ~trace'.search.done
    /\ ~trace'.track.done
    /\ UNCHANGED <<waypoints_queue, waypoint_buffer, rrt_buffer>>

\* C1 as stated: every tick that starts with the Waypoint Queue and the
\* Waypoint Buffer both empty returns the full-stop command, asks neither
\* the searcher nor the controller and leaves the three queues unchanged
C1_Original ==
    [][(op' = "run_step" /\ waypoints_queue = <<>> /\ waypoint_buffer = <<>>)
        => EmptyPlanTick]_vars

\* C1 amended: the same of every such tick that is given a target speed or
\* still has its vehicle (a tick without either raises AttributeError at
\* the speed-limit read of line 255, before the empty-plan test)
C1_EmptyPlanStops ==
    [][(/\ op' = "run_step" /\ waypoints_queue = <<>> /\ waypoint_buffer = <<>>
        /\ (args'.target_speed # NoSpeed \/ vehicle # None))
        => EmptyPlanTick]_vars

C1_Witness ==
    /\ IsTick /\ ReturnsFullStop(ret)
    /\ waypoints_queue = <<>> /\ waypoint_buffer = <<>>
    /\ ~trace.refill.done

\* C2: a tick that starts with an empty Queue and a non-empty Buffer (its
\* vehicle present, a target speed given) does not return the full-stop
\* command; it takes the Buffer front as its global target
C2_StopOnlyIfBothEmpty ==
    [][(/\ op' = "run_step" /\ waypoints_queue = <<>> /\ waypoint_buffer # <<>>
        /\ args'.target_speed # NoSpeed /\ vehicle # None)
        => (~ReturnsFullStop(ret') /\ trace'.target = Head(waypoint_buffer))]_vars

\* C3: the refill of a tick never raises, whatever the length of the Queue,
\* and ends with the Buffer at its capacity or the Queue exhausted
C3_RefillNeverRaises ==
    (IsTick /\ trace.refill.done)
        => /\ ret # Raise("IndexError")
           /\ Len(trace.refill.buffer) = 5 \/ trace.refill.queue = <<>>

\* C4: the Buffer never holds more than 5 entries, and the Buffer followed
\* by the Queue lists route waypoints in the order the provider issued them
C4_BufferBoundedInRouteOrder ==
    /\ Len(waypoint_buffer) <= 5
    /\ LET ids == Ids(waypoint_buffer \o waypoints_queue)
       IN  \A i, j \in 1..Len(ids) : i < j => ids[i] < ids[j]

C4_Witness ==
    /\ IsTick /\ trace.refill.done
    /\ Len(trace.refill.buffer) >= 2
    /\ Len(waypoint_buffer) >= 1

\* C5: a refill from the Queue q puts q[5k+4] (k from 0) at Buffer position
\* k, for floor(|q|/5) positions up to the capacity, four entries of q being
\* discarded before each; the Queue keeps what follows the entries taken
\* (nothing, if the refill ran out of entries and raised)
C5_RefillTakesEveryFifth ==
    (IsTick /\ trace.refill.done)
        => LET q == trace.refill.from
               b == trace.refill.buffer
           IN  /\ Len(b) = Min(5, Len(q) \div 5)
               /\ \A k \in 0..(Len(b) - 1) : b[k + 1] = q[5 * k + 4 + 1]
               /\ ret # Raise("IndexError")
                    => trace.refill.queue = SubSeq(q, 5 * Len(b) + 1, Len(q))
               /\ ret = Raise("IndexError") => trace.refill.queue = <<>>

C5_Witness ==
    /\ IsTick /\ trace.refill.done
    /\ Len(trace.refill.from) = 10
    /\ trace.refill.buffer = <<trace.refill.from[5], trace.refill.from[10]>>

\* C6: set_global_plan(entries, clean) sets the flag and appends the entries
\* to the Queue in their order; with clean false the Buffer is unchanged,
\* with clean true the Buffer then holds the first min(5, length) entries of
\* that Queue, in order and with none skipped, and the Queue holds the rest
C6_SetGlobalPlan ==
    [][op' = "set_global_plan"
        => LET all == waypoints_queue \o args'.current_plan
               k == Min(5, Len(all))
           IN  /\ global_plan'
               /\ ~args'.clean => waypoints_queue' = all /\ waypoint_buffer' = waypoint_buffer
               /\ args'.clean => /\ waypoint_buffer' = SubSeq(all, 1, k)
                                 /\ waypoints_queue' = SubSeq(all, k + 1, Len(all))]_vars

C6_Witness ==
    /\ op = "set_global_plan" /\ args.clean /\ args.current_plan # <<>>
    /\ Len(waypoint_buffer) = 5 /\ waypoints_queue # <<>>
    /\ waypoint_buffer[1] # args.current_plan[1]

\* C7: the purge pops the Buffer entries up to and including the highest
\* position that is within the minimum distance and keeps the rest in
\* order; with no position within the distance it pops nothing; it leaves
\* the Queue alone
C7_PurgePopsPrefix ==
    (IsTick /\ trace.purge.done)
        => LET b == trace.purge.buffer
               near == trace.purge.near
           IN  /\ waypoints_queue = trace.purge.queue
               /\ near = {} => waypoint_buffer = b
               /\ \A i \in near :
                    (\A j \in near : j <= i) => waypoint_buffer = SubSeq(b, i + 1, Len(b))

C7_Witness ==
    /\ IsTick /\ trace.purge.done
    /\ Len(trace.purge.buffer) >= 3
    /\ trace.purge.near = {2}

\* C8: a tick that is given a target speed and whose search returns the
\* empty path does not raise, leaves the Local Target Queue empty and hands
\* the controller the global target of that replan
C8_SearchFailureTracksGlobalTarget ==
    (IsTick /\ trace.search.done /\ trace.search.len = 0 /\ args.target_speed # NoSpeed)
        => /\ ret.kind = "return"
           /\ rrt_buffer = <<>>
           /\ trace.track.done
           /\ ret.value.waypoint = trace.target[1]

\* what C9 promises of get_incoming_waypoint_and_direction(steps)
PeekContract(q, steps, r) ==
    /\ r.kind = "return"
    /\ (0 <= steps /\ steps < Len(q)) => r.value = q[steps + 1]
    /\ (steps >= Len(q) /\ q # <<>>) => r.value = q[Len(q)]
    /\ q = <<>> => r.value = <<NoWaypoint, RoadOption.VOID>>

\* C9 as stated: for every Queue and every steps the lookahead does not
\* raise, leaves the Queue unchanged and returns the entry at position
\* steps, else the last entry, else (None, VOID)
C9_Original ==
    [][op' = "get_incoming_waypoint_and_direction"
        => /\ UNCHANGED <<waypoints_queue, waypoint_buffer>>
           /\ PeekContract(waypoints_queue, args'.steps, ret')]_vars

\* C9 amended: the same for every steps that is not negative
C9_PeekIncoming ==
    [][(op' = "get_incoming_waypoint_and_direction" /\ args'.steps >= 0)
        => /\ UNCHANGED <<waypoints_queue, waypoint_buffer>>
           /\ PeekContract(waypoints_queue, args'.steps, ret')]_vars

C9_Witness ==
    /\ op = "get_incoming_waypoint_and_direction"
    /\ waypoints_queue # <<>>
    /\ args.steps >= Len(waypoints_queue)
    /\ ret = Returned(waypoints_queue[Len(waypoints_queue)])

\* C10: in a tick that selects gains, a requested speed above 50 gives the
\* controller the two highway profiles, a speed of 50 or less the two city
\* profiles, and never one of each
C10_GainsBySpeed ==
    (IsTick /\ trace.gains.done)
        => LET speed == args.target_speed[1]
               g == trace.gains
           IN  /\ speed > 50 => g.lat = args_lat_hw_dict /\ g.long = args_long_hw_dict
               /\ speed <= 50 => g.lat = args_lat_city_dict /\ g.long = args_long_city_dict
               /\ trace.track.done => /\ ret.value.args_lateral = g.lat
                                      /\ ret.value.args_longitudinal = g.long

C10_Witness ==
    /\ IsTick /\ trace.gains.done /\ trace.track.done
    /\ args.target_speed = <<51>>
    /\ ret.value.args_lateral = args_lat_hw_dict

\* the palette rule of the grid builder: road and lane marking free, the
\* ego value 0.5, everything else occupied
PaletteRule(v) ==
    IF v \in {RoadGray, LaneGray} THEN GridFree
    ELSE IF v = vehicle_color THEN GridEgo
    ELSE GridOccupied

\* C11: in the grid occupancy_grid returns, every pixel whose value occurs
\* fewer than 500 times in the image and is not the ego value is occupied,
\* and every pixel whose value occurs 500 times or more is classified by the
\* palette rule alone
C11_RareValuesOccupied ==
    op = "occupancy_grid" =>
        \A r \in Regions :
            LET v == args.img[r].value
                n == CountPixels(args.img, v, Regions)
            IN  /\ (n < RarityThreshold /\ v # vehicle_color) => ret.value[r] = GridOccupied
                /\ n >= RarityThreshold => ret.value[r] = PaletteRule(v)

\* C12: a tick that maps the origin cell (75, 168) does not divide by zero
C12_OriginCellMapped ==
    (IsTick /\ trace.search.done
            /\ \E k \in 1..Len(trace.search.kept) : trace.search.kept[k] = <<OriginA, OriginB>>)
        => ret # Raise("ZeroDivisionError")

\* C13: once the vehicle reference is lost, every tick ends in an error and
\* leaves the Waypoint Queue, the Buffer and the Local Target Queue unchanged
C13_TicksRefusedAfterReset ==
    [][(vehicle = None /\ op' = "run_step")
          => /\ ret'.kind = "raise"
             /\ UNCHANGED <<waypoints_queue, waypoint_buffer, rrt_buffer>>]_vars

\* C15: in a tick that replans and whose searcher returns no path, the
\* Buffer front after the replanning step is still the global target
C15_TargetKeptOnSearchFailure ==
    (IsTick /\ trace.search.done /\ trace.search.len = 0)
        => /\ trace.search.buffer # <<>>
           /\ Head(trace.search.buffer) = trace.target

\* C18: in every replanning tick the grid the searcher receives is, cell for
\* cell, the grid the builder produced from the frame of that tick
C18_SearcherGetsBuiltGrid ==
    (IsTick /\ trace.grid.done /\ trace.search.done)
        => /\ trace.grid.built = occupancy_grid(rgb)
           /\ trace.search.grid = trace.grid.built

\* C19: a tick called without a target speed, on a planner that has its
\* vehicle and a non-empty Waypoint Queue, does not fail on the comparison
\* of the target speed with the threshold
C19_NoTargetSpeedCompletes ==
    [][(op' = "run_step" /\ args'.target_speed = NoSpeed
           /\ vehicle = Vehicle /\ waypoints_queue # <<>>)
          => ret' # Raise("TypeError")]_vars

\* C14: when set_global_plan has installed a non-empty plan on a planner
\* whose Queue was empty and whose Buffer was empty or is cleaned, so that
\* Buffer and Queue hold the new plan and nothing else, the next tick, given
\* a target speed, returns a command of the tracking controller
C14_StopRecoverable ==
    [][(/\ op = "set_global_plan" /\ args.current_plan # <<>>
        /\ waypoint_buffer \o waypoints_queue = args.current_plan
        /\ vehicle = Vehicle
        /\ op' = "run_step" /\ args'.target_speed # NoSpeed)
          => /\ ret'.kind = "return"
             /\ ~FullStop(ret'.value)
             /\ trace'.track.done]_vars

\* the entries of a sequence
Range(f) == {f[k] : k \in 1..Len(f)}

\* C17 as stated: after set_global_plan with clean, neither the Queue nor
\* the Buffer holds an entry that was in them before the call, and the
\* Buffer front is the first entry of the new plan
C17_Original ==
    [][(op' = "set_global_plan" /\ args'.clean)
          => /\ Range(waypoints_queue' \o waypoint_buffer')
                    \cap Range(waypoints_queue \o waypoint_buffer) = {}
             /\ args'.current_plan # <<>> => waypoint_buffer'[1] = args'.current_plan[1]]_vars

\* C17: after set_global_plan with clean, the Buffer holds no entry that was
\* in the Buffer before the call; the entries the Queue held before the call
\* are kept, in order, ahead of the new ones, so the Buffer front is the
\* front of the old Queue, and the first entry of the new plan only when the
\* Queue was empty before the call
C17_CleanClearsBufferOnly ==
    [][(op' = "set_global_plan" /\ args'.clean)
          => LET held == waypoint_buffer' \o waypoints_queue'
             IN  /\ Range(waypoint_buffer') \cap Range(waypoint_buffer) = {}
                 /\ held = waypoints_queue \o args'.current_plan
                 /\ Len(waypoint_buffer') = Min(buffer_size, Len(held))
                 /\ waypoints_queue # <<>> => waypoint_buffer'[1] = waypoints_queue[1]
                 /\ (waypoints_queue = <<>> /\ args'.current_plan # <<>>)
                        => waypoint_buffer'[1] = args'.current_plan[1]]_vars

\* a clean set_global_plan on a planner whose Queue still held entries of an
\* earlier plan: the Buffer front is older than the new plan
C17_Witness ==
    /\ op = "set_global_plan" /\ args.clean
    /\ args.current_plan # <<>> /\ waypoint_buffer # <<>>
    /\ Ids(waypoint_buffer)[1] < Ids(args.current_plan)[1]

\* C20: every tick that starts with its vehicle, a target speed and a
\* non-empty Waypoint Queue, which is every tick before the one that emits
\* the no-plan stop command, completes and removes at least one entry from
\* the Buffer or the Local Target Queue
C20_TicksBeforeStopComplete ==
    [][(/\ op' = "run_step" /\ args'.target_speed # NoSpeed
        /\ vehicle = Vehicle /\ waypoints_queue # <<>>)
          => /\ ret'.kind = "return"
             /\ trace'.search.done \/ Len(rrt_buffer') < Len(rrt_buffer)]_vars

Reverse(f) == [k \in 1..Len(f) |-> f[Len(f) + 1 - k]]

\* the local targets of a sequence of cells, in the order of the cells
Mapped(cells) == [k \in 1..Len(cells) |-> MapWaypoint([cell |-> cells[k]])]

\* a tick that replans with a returned path of three cells or more, all of
\* its kept cells mapped
ReplanTick ==
    /\ op' = "run_step" /\ trace'.search.done
    /\ trace'.search.len >= PathDrop + 1
    /\ ret' # Raise("ZeroDivisionError")

\* a tick that starts with local targets left and gets to the controller:
\* it does not replan and takes the front of the Local Target Queue
ConsumesFront ==
    (op' = "run_step" /\ rrt_buffer # <<>> /\ trace'.track.done)
        => /\ ~trace'.search.done
           /\ local_target' = Head(rrt_buffer)
           /\ rrt_buffer' = Tail(rrt_buffer)

====
